---- MODULE Spec2Model ----
(***************************************************************************)
(* A model of ormantic (src/src/ormantic/models.py, fields.py): the model  *)
(* metaclass, the QuerySet builder, the row materializer, and the store    *)
(* operations they issue.                                                  *)
(*                                                                         *)
(* Encodings.  A keyword "author__name__iexact" is the sequence of its     *)
(* parts <<"author", "name", "iexact">> (what key.split("__") returns); a  *)
(* join path "author__profile" is <<"author", "profile">>.  A Python list  *)
(* that is shared by reference is an index into the heap `lists`; a list   *)
(* that the code copies is a value.  Python's None is the integer None.    *)
(***************************************************************************)
EXTENDS Integers, Sequences, FiniteSets, TLC

VARIABLES
    lists,      \* heap of the list objects held in QuerySet.filter_clauses
    builders,   \* the QuerySet objects built so far
    expr,       \* the last expression returned by build_select_expression
    store,      \* the database: table name -> sequence of rows
    log,        \* the statements handed to the executor, in order
    ret,        \* the outcome of the last store operation
    declared,   \* the model classes declared so far (MetaModel.__new__)
    inst,       \* a model instance
    im          \* the insert_many call in progress

vars == <<lists, builders, expr, store, log, ret, declared, inst, im>>

\* Python's None, among integer values (ids and row counts are >= 0).
None == -9

\* ------------------------------------------------------------------ bounds
MaxBuilders == 3
MaxClauses == 3
MaxDeclared == 2
MaxFields == 3
MaxRowsIn == 5
MaxBatch == 3
MaxId == 2
MaxRows == 2

\* -------------------------------------------------------------- the values
Ids == 1..MaxId

Names == {"Tom", "Jane"}

Titles == {"A", "B"}

\* ------------------------------------------------------------- sequences
Range(s) == {s[i] : i \in 1..Len(s)}

Contains(s, x) == \E i \in 1..Len(s) : s[i] = x

Last(s) == s[Len(s)]

NoDuplicates(s) == \A i, j \in 1..Len(s) : i # j => s[i] # s[j]

\* ----------------------------------------------------------------- fields
\* fields.py: a field type made by Integer(...), String(...), ForeignKey(...).
\* `default` tells whether the class body gives the field a default (= None).
FieldType(kind, primary_key, allow_null, to) ==
    [kind |-> kind, primary_key |-> primary_key, allow_null |-> allow_null, to |-> to]

Field(name, type, has_default) ==
    [name |-> name, type_ |-> type, has_default |-> has_default]

Integer(primary_key) == FieldType("Integer", primary_key, FALSE, "")

String == FieldType("String", FALSE, FALSE, "")

\* ForeignKey has no primary_key argument: it inherits ColumnFactory's False.
ForeignKey(to, allow_null) == FieldType("ForeignKey", FALSE, allow_null, to)

\* ColumnFactory.get_column
get_column(name, type) ==
    [name |-> name,
     primary_key |-> type.primary_key,
     nullable |-> type.allow_null /\ ~type.primary_key,
     foreign_key |-> type.to]

\* ------------------------------------------------------------- metaclass
\* The value of Mapping.pk_name when the loop never assigned it.
Unset == ""

\* MetaModel.__new__, the loop over __fields__: pk_name is assigned at every
\* field flagged primary_key, so the last such field wins; none leaves it unset.
RECURSIVE PkNameLoop(_, _, _)
PkNameLoop(fields, i, pk_name) ==
    IF i > Len(fields) THEN pk_name
    ELSE PkNameLoop(fields, i + 1,
                    IF fields[i].type_.primary_key THEN fields[i].name ELSE pk_name)

\* MetaModel.__new__: the Mapping of a class declared with `fields`.  It
\* raises nothing: whatever the primary-key flags are, a table is built.
MetaModel_new(table_name, fields) ==
    [ok |-> TRUE,
     pk_name |-> PkNameLoop(fields, 1, Unset),
     table_name |-> table_name,
     fields |-> fields,
     columns |-> [i \in 1..Len(fields) |-> get_column(fields[i].name, fields[i].type_)]]

\* ----------------------------------------------------------- the schema
\* The model classes queried below, declared as in the tests (User) and as
\* the relations the specification names (author, author__profile).
Models == {"User", "Profile", "Author", "Book"}

TableName == [User |-> "users", Profile |-> "profiles",
              Author |-> "authors", Book |-> "books"]

ModelFields ==
    [User    |-> <<Field("id", Integer(TRUE), TRUE), Field("name", String, FALSE)>>,
     Profile |-> <<Field("id", Integer(TRUE), TRUE), Field("bio", String, FALSE)>>,
     Author  |-> <<Field("id", Integer(TRUE), TRUE), Field("name", String, FALSE),
                   Field("profile", ForeignKey("Profile", TRUE), TRUE)>>,
     Book    |-> <<Field("id", Integer(TRUE), TRUE), Field("title", String, FALSE),
                   Field("author", ForeignKey("Author", FALSE), FALSE)>>]

Mapping(cls) == MetaModel_new(TableName[cls], ModelFields[cls])

FieldNames(cls) == [i \in 1..Len(ModelFields[cls]) |-> ModelFields[cls][i].name]

HasField(cls, name) == \E i \in 1..Len(ModelFields[cls]) : ModelFields[cls][i].name = name

\* model_cls.__fields__[name]
FieldOf(cls, name) ==
    ModelFields[cls][CHOOSE i \in 1..Len(ModelFields[cls]) : ModelFields[cls][i].name = name]

\* table.columns[name] / getattr(table.c, name): the Column object.
Column(cls, name) == [type |-> "Column", table |-> TableName[cls], name |-> name]

\* A str object used as a dict key.
StrKey(name) == [type |-> "str", table |-> "", name |-> name]

\* ---------------------------------------------------------------- QuerySet
FILTER_OPERATORS ==
    [any |-> "any_", exact |-> "__eq__", iexact |-> "ilike", contains |-> "like",
     icontains |-> "ilike", in |-> "in_", gt |-> "__gt__", gte |-> "__ge__",
     lt |-> "__lt__", lte |-> "__le__"]

\* "%" + value + "%", over the strings the model filters with.
Wrap == [Tom |-> "%Tom%", tom |-> "%tom%", Jane |-> "%Jane%", A |-> "%A%", B |-> "%B%",
         x |-> "%x%"]

\* QuerySet.__init__
QuerySet(model_cls, filter_clauses, select_related) ==
    [model_cls |-> model_cls, filter_clauses |-> filter_clauses,
     _select_related |-> select_related]

\* QuerySet.filter, lines 76-88: the operator, the field and the related parts
\* of one keyword.
ParseKey(parts) ==
    IF Len(parts) > 1
    THEN IF Last(parts) \in DOMAIN FILTER_OPERATORS
         THEN [op |-> Last(parts), field_name |-> parts[Len(parts) - 1],
               related_parts |-> SubSeq(parts, 1, Len(parts) - 2)]
         ELSE [op |-> "exact", field_name |-> Last(parts),
               related_parts |-> SubSeq(parts, 1, Len(parts) - 1)]
    ELSE [op |-> "exact", field_name |-> parts[1], related_parts |-> <<>>]

\* QuerySet.filter, lines 99-100: walk the relationships from model_cls.
RECURSIVE WalkRelated(_, _)
WalkRelated(model_cls, parts) ==
    IF parts = <<>> THEN model_cls
    ELSE WalkRelated(FieldOf(model_cls, Head(parts)).type_.to, Tail(parts))

\* Whether the walk and the column lookup of a keyword succeed (no KeyError).
RECURSIVE WalkOk(_, _)
WalkOk(model_cls, parts) ==
    IF parts = <<>> THEN TRUE
    ELSE /\ HasField(model_cls, Head(parts))
         /\ FieldOf(model_cls, Head(parts)).type_.kind = "ForeignKey"
         /\ WalkOk(FieldOf(model_cls, Head(parts)).type_.to, Tail(parts))

KeyOk(model_cls, parts) ==
    /\ parts # <<>>
    /\ WalkOk(model_cls, ParseKey(parts).related_parts)
    /\ HasField(WalkRelated(model_cls, ParseKey(parts).related_parts),
                ParseKey(parts).field_name)

\* QuerySet.filter, lines 102-118: the clause of one keyword.
MakeClause(model_cls, kw) ==
    LET p == ParseKey(kw.key) IN
    [column |-> Column(WalkRelated(model_cls, p.related_parts), p.field_name),
     op |-> FILTER_OPERATORS[p.op],
     value |-> IF p.op \in {"contains", "icontains"} THEN Wrap[kw.value] ELSE kw.value]

\* QuerySet.filter, lines 91-95: the select_related list after one keyword.
AddRelated(select_related, kw) ==
    LET related_parts == ParseKey(kw.key).related_parts IN
    IF related_parts # <<>> /\ ~Contains(select_related, related_parts)
    THEN Append(select_related, related_parts)
    ELSE select_related

\* QuerySet.filter, line 72: the list the clauses are appended to.  The code
\* binds the builder's own list object (no copy).
FilterTarget(heap, self) == [heap |-> heap, ref |-> self.filter_clauses]

\* QuerySet.filter, line 73: list(self._select_related), a copy.
FilterRelated(self) == self._select_related

\* QuerySet.filter, the loop: appends each keyword's clause to the list object
\* `ref` of `heap` and extends the select_related copy.
RECURSIVE FilterLoop(_, _, _, _, _)
FilterLoop(model_cls, kwargs, i, heap, acc) ==
    IF i > Len(kwargs) THEN [heap |-> heap, select_related |-> acc.select_related]
    ELSE FilterLoop(model_cls, kwargs, i + 1,
                    [heap EXCEPT ![acc.ref] =
                        Append(heap[acc.ref], MakeClause(model_cls, kwargs[i]))],
                    [acc EXCEPT !.select_related = AddRelated(@, kwargs[i])])

\* QuerySet.filter: the heap after the call and the builder it returns.
filter(heap, self, kwargs) ==
    LET t == FilterTarget(heap, self)
        r == FilterLoop(self.model_cls, kwargs, 1, t.heap,
                        [ref |-> t.ref, select_related |-> FilterRelated(self)])
    IN [heap |-> r.heap,
        qs |-> QuerySet(self.model_cls, t.ref, r.select_related)]

\* QuerySet.select_related: `related` is the list given (a single path is
\* wrapped into a list by the caller of this operator).
select_related(self, related) ==
    QuerySet(self.model_cls, self.filter_clauses, self._select_related \o related)

\* build_select_expression, lines 50-57: the tables joined for one path,
\* one join per part.
RECURSIVE JoinsOfPath(_, _)
JoinsOfPath(model_cls, parts) ==
    IF parts = <<>> THEN <<>>
    ELSE LET to == FieldOf(model_cls, Head(parts)).type_.to
         IN <<TableName[to]>> \o JoinsOfPath(to, Tail(parts))

RECURSIVE JoinsOf(_, _)
JoinsOf(model_cls, paths) ==
    IF paths = <<>> THEN <<>>
    ELSE JoinsOfPath(model_cls, Head(paths)) \o JoinsOf(model_cls, Tail(paths))

\* build_select_expression passing the first clause through and dropping the
\* others.
WhereClause_FirstOnly(clauses) ==
    [kind |-> IF clauses = <<>> THEN "none" ELSE "clause",
     clauses |-> IF clauses = <<>> THEN <<>> ELSE <<Head(clauses)>>]

\* build_select_expression, lines 62-67: one clause is passed through, several
\* are wrapped in and_().
WhereClause(clauses) ==
    [kind |-> IF clauses = <<>> THEN "none"
              ELSE IF Len(clauses) = 1 THEN "clause" ELSE "and_",
     clauses |-> clauses]

\* build_select_expression: `joins` are the tables joined onto the model's own
\* table, in order; `tables` is the select list.
build_select_expression(heap, self) ==
    LET joins == JoinsOf(self.model_cls, self._select_related) IN
    [table |-> TableName[self.model_cls],
     tables |-> <<TableName[self.model_cls]>> \o joins,
     joins |-> joins,
     whereclause |-> WhereClause(heap[self.filter_clauses])]

\* ------------------------------------------------------------------ Model
\* A model instance is [kind |-> "Model", cls, values]: `values` is __values__,
\* a record over the validated field names.  The value of a foreign-key field
\* is a Python object: an instance, or NoneObj.
NoneObj == [kind |-> "None"]

Instance(cls, values) == [kind |-> "Model", cls |-> cls, values |-> values]

\* d with d[k] = v, k added when absent (a dict assignment).
DictSet(d, k, v) == [x \in DOMAIN d \cup {k} |-> IF x = k THEN v ELSE d[x]]

\* d without key k (dict.pop)
DictPop(d, k) == [x \in DOMAIN d \ {k} |-> d[x]]

\* dict.get(key, default) on a dict whose keys are str objects: a key of another
\* type (a Column) hashes and compares differently from every str, and is absent.
DictGet(d, key, default) ==
    IF key.type = "str" /\ key.name \in DOMAIN d THEN d[key.name] ELSE default

\* The class-body default of a field (every default in the schema is None).
DefaultOf(f) == IF f.type_.kind = "ForeignKey" THEN NoneObj ELSE None

\* pydantic.validate_model over the fields in order: a given value is kept, an
\* absent one takes the field's default, an absent required one is an error.
RECURSIVE ValidateLoop(_, _, _, _)
ValidateLoop(fields, data, i, acc) ==
    IF i > Len(fields) THEN acc
    ELSE LET f == fields[i] IN
         ValidateLoop(fields, data, i + 1,
            IF f.name \in DOMAIN data
            THEN [acc EXCEPT !.values = DictSet(@, f.name, data[f.name])]
            ELSE IF f.has_default
                 THEN [acc EXCEPT !.values = DictSet(@, f.name, DefaultOf(f))]
                 ELSE [acc EXCEPT !.errors = Append(@, f.name)])

validate_model(cls, data) ==
    ValidateLoop(ModelFields[cls], data, 1, [values |-> <<>>, errors |-> <<>>])

\* RenamePk with the pk keyword left under its own name (no aliasing).
RenamePk_NotMoved(cls, data) == data

\* Model.__init__, lines 248-249: the pk keyword is moved to the native name.
RenamePk(cls, data) ==
    IF "pk" \in DOMAIN data
    THEN DictSet(DictPop(data, "pk"), Mapping(cls).pk_name, data["pk"])
    ELSE data

\* Model.__init__: [ok, inst].  ok is FALSE when validate_model raises
\* (raise_exc = not pk_only and there are errors).
Model_init(cls, data) ==
    LET d1 == RenamePk(cls, data)
        pk_only == IF "__pk_only__" \in DOMAIN d1 THEN d1["__pk_only__"] ELSE FALSE
        d2 == DictPop(d1, "__pk_only__")
        v == validate_model(cls, d2)
    IN [ok |-> pk_only \/ v.errors = <<>>,
        inst |-> Instance(cls, v.values)]

\* Model.pk (property)
pk(self) == self.values[Mapping(self.cls).pk_name]

\* Model.__setattr__
setattr(self, name, value) ==
    IF name = "pk"
    THEN [self EXCEPT !.values = DictSet(@, Mapping(self.cls).pk_name, value)]
    ELSE [self EXCEPT !.values = DictSet(@, name, value)]

\* Model.table_dict, _get_td_value: a model instance is replaced by its pk.
get_td_value(cls, k, v) ==
    IF FieldOf(cls, k).type_.kind = "ForeignKey"
    THEN IF v.kind = "Model" THEN pk(v) ELSE None
    ELSE v

\* Model.table_dict: a dict keyed by the field names (str).
table_dict(self) ==
    [k \in DOMAIN self.values |-> get_td_value(self.cls, k, self.values[k])]

\* Whether every field of the instance's class is set.
FullyPopulated(self) ==
    DOMAIN self.values = {ModelFields[self.cls][i].name : i \in 1..Len(ModelFields[self.cls])}

\* row[column], for a row of joined tables: table name -> the table's row.
RowGet(row, column) == row[column.table][column.name]

\* Model.from_row, lines 348-357: the related instances, one per join path in
\* order; an entry for the same first part replaces the earlier one.
RECURSIVE from_row(_, _, _)
RECURSIVE RelatedLoop(_, _, _, _, _)
RelatedLoop(cls, row, paths, i, item) ==
    IF i > Len(paths) THEN item
    ELSE LET related == paths[i]
             first_part == Head(related)
             model_cls == FieldOf(cls, first_part).type_.to
         IN RelatedLoop(cls, row, paths, i + 1,
               DictSet(item, first_part,
                  IF Len(related) > 1
                  THEN from_row(model_cls, row, <<Tail(related)>>)
                  ELSE from_row(model_cls, row, <<>>)))

\* Model.from_row, lines 360-367: the regular columns; a foreign key becomes
\* a pk-only instance.
RECURSIVE ColumnLoop(_, _, _, _)
ColumnLoop(cls, row, i, item) ==
    IF i > Len(ModelFields[cls]) THEN item
    ELSE LET f == ModelFields[cls][i]
             value == RowGet(row, Column(cls, f.name))
         IN ColumnLoop(cls, row, i + 1,
               IF f.name \in DOMAIN item THEN item
               ELSE DictSet(item, f.name,
                       IF f.type_.kind = "ForeignKey"
                       THEN Model_init(f.type_.to,
                                       [pk |-> value, __pk_only__ |-> TRUE]).inst
                       ELSE value))

from_row(cls, row, paths) ==
    Model_init(cls, ColumnLoop(cls, row, 1, RelatedLoop(cls, row, paths, 1, <<>>))).inst

\* ------------------------------------------------------------ the executor
\* The database behind Mapping.database (the `databases` package over SQLite,
\* as in the tests): a table is the sequence of its rows in rowid order.
ColumnNames(cls) == {ModelFields[cls][i].name : i \in 1..Len(ModelFields[cls])}

RowIds(rows) == {rows[i].id : i \in 1..Len(rows)}

\* The rowid the table assigns to a row inserted without one: max + 1.
NextRowId(rows) ==
    IF rows = <<>> THEN 1
    ELSE 1 + CHOOSE m \in RowIds(rows) : \A x \in RowIds(rows) : x <= m

\* The row an INSERT ... VALUES(**data) stores: absent columns are NULL, a NULL
\* primary key is assigned by the table.
InsertedRow(rows, cls, data) ==
    LET given == [c \in ColumnNames(cls) |-> IF c \in DOMAIN data THEN data[c] ELSE None]
    IN IF given.id = None THEN [given EXCEPT !.id = NextRowId(rows)] ELSE given

\* Whether the INSERT violates the primary key's uniqueness.
InsertConflicts(rows, cls, data) ==
    "id" \in DOMAIN data /\ data.id # None /\ data.id \in RowIds(rows)

\* rows with row r placed by rowid.
RECURSIVE InsertSorted(_, _)
InsertSorted(rows, r) ==
    IF rows = <<>> THEN <<r>>
    ELSE IF r.id < Head(rows).id THEN <<r>> \o rows
         ELSE <<Head(rows)>> \o InsertSorted(Tail(rows), r)

\* The table after the INSERT.
ExecInsert(rows, cls, data) == InsertSorted(rows, InsertedRow(rows, cls, data))

\* execute_many run in a transaction of the whole call to insert_many that a
\* later batch replaces: the rows of the earlier batches are not kept.
RECURSIVE ExecMany_EarlierLost(_, _, _, _)
ExecMany_EarlierLost(rows, cls, values, done) ==
    IF values = <<>> \/ InsertConflicts(rows, cls, Head(values))
    THEN [rows |-> rows, done |-> done, ok |-> values = <<>>]
    ELSE ExecMany_EarlierLost(ExecInsert(IF done = 0 THEN <<>> ELSE rows, cls, Head(values)),
                              cls, Tail(values), done + 1)

\* execute_many(expr, values): one INSERT per element, in order, stopping at
\* the first that the table rejects.  [rows, done]: the table afterwards and
\* the number of elements inserted.
RECURSIVE ExecMany(_, _, _, _)
ExecMany(rows, cls, values, done) ==
    IF values = <<>> \/ InsertConflicts(rows, cls, Head(values))
    THEN [rows |-> rows, done |-> done, ok |-> values = <<>>]
    ELSE ExecMany(ExecInsert(rows, cls, Head(values)), cls, Tail(values), done + 1)

\* The table a joined table is linked from: the foreign key among the tables
\* already joined that references it (the ON clause sqlalchemy infers).
LinkInto(joined, t) ==
    CHOOSE l \in {[cls |-> c, field |-> f] : c \in Models, f \in {"author", "profile"}} :
        /\ TableName[l.cls] \in joined
        /\ HasField(l.cls, l.field)
        /\ FieldOf(l.cls, l.field).type_.kind = "ForeignKey"
        /\ TableName[FieldOf(l.cls, l.field).type_.to] = t

\* The joined row of one row of the first table: an inner join, so a foreign
\* key that is NULL or dangling yields no row.  A table that the expression
\* joins a second time adds nothing.
RECURSIVE JoinTables(_, _, _)
JoinTables(st, joins, acc) ==
    IF joins = <<>> THEN [ok |-> TRUE, row |-> acc]
    ELSE LET t == Head(joins) IN
         IF t \in DOMAIN acc THEN JoinTables(st, Tail(joins), acc)
         ELSE LET l == LinkInto(DOMAIN acc, t)
                  fk == acc[TableName[l.cls]][l.field]
                  hits == {k \in 1..Len(st[t]) : st[t][k].id = fk}
              IN IF hits = {} THEN [ok |-> FALSE, row |-> acc]
                 ELSE JoinTables(st, Tail(joins),
                                 DictSet(acc, t, st[t][CHOOSE k \in hits : TRUE]))

\* Lower-casing, and the substrings, of the strings stored and filtered with.
Lower == [Tom |-> "tom", tom |-> "tom", Jane |-> "jane", jane |-> "jane",
          A |-> "a", B |-> "b", a |-> "a", b |-> "b", x |-> "x"]

Substrings ==
    [Tom |-> {"Tom", "To", "om", "T", "o", "m"},
     tom |-> {"tom", "to", "om", "t", "o", "m"},
     Jane |-> {"Jane", "Jan", "ane", "Ja", "an", "ne", "J", "a", "n", "e"},
     jane |-> {"jane", "jan", "ane", "ja", "an", "ne", "j", "a", "n", "e"},
     A |-> {"A"}, B |-> {"B"}, a |-> {"a"}, b |-> {"b"}, x |-> {"x"}]

IsPattern(p) == \E k \in DOMAIN Wrap : Wrap[k] = p

Inner(p) == CHOOSE k \in DOMAIN Wrap : Wrap[k] = p

\* SQL LIKE / ILIKE of a stored string against a pattern.
Like(v, p) == IF IsPattern(p) THEN Inner(p) \in Substrings[v] ELSE v = p

ILike(v, p) ==
    IF IsPattern(p) THEN Lower[Inner(p)] \in Substrings[Lower[v]] ELSE Lower[v] = Lower[p]

\* One predicate on a row of joined tables.
EvalClause(c, row) ==
    LET v == row[c.column.table][c.column.name] IN
    CASE c.op = "__eq__" -> v = c.value
      [] c.op = "like" -> Like(v, c.value)
      [] c.op = "ilike" -> ILike(v, c.value)
      [] c.op = "__gt__" -> v # None /\ v > c.value
      [] c.op = "__ge__" -> v # None /\ v >= c.value
      [] c.op = "__lt__" -> v # None /\ v < c.value
      [] c.op = "__le__" -> v # None /\ v <= c.value
      [] OTHER -> FALSE

\* WHERE: no clause, the clause, or and_ of the clauses.
EvalWhere(w, row) == \A k \in 1..Len(w.clauses) : EvalClause(w.clauses[k], row)

\* fetch_all(expr): the joined rows that satisfy the WHERE clause, in the
\* order of the first table.
RECURSIVE FetchFrom(_, _, _)
FetchFrom(st, e, k) ==
    IF k > Len(st[e.table]) THEN <<>>
    ELSE LET base == st[e.table][k]
             j == JoinTables(st, e.joins, [t \in {e.table} |-> base])
         IN (IF j.ok /\ EvalWhere(e.whereclause, j.row) THEN <<j.row>> ELSE <<>>)
            \o FetchFrom(st, e, k + 1)

fetch_all(st, e) == FetchFrom(st, e, 1)

\* expr.limit(n)
Limit(rows, n) == IF Len(rows) > n THEN SubSeq(rows, 1, n) ELSE rows

\* The tables a WHERE clause names besides the statement's own table.
ExtraFroms(table, w) ==
    {w.clauses[k].column.table : k \in 1..Len(w.clauses)} \ {table}

\* DELETE FROM table WHERE w, with w over the table's own columns.
RECURSIVE DeleteWhere(_, _, _)
DeleteWhere(rows, table, w) ==
    IF rows = <<>> THEN <<>>
    ELSE (IF EvalWhere(w, [t \in {table} |-> Head(rows)]) THEN <<>> ELSE <<Head(rows)>>)
         \o DeleteWhere(Tail(rows), table, w)

\* DELETE FROM table USING extra WHERE w (the dialects that render the extra
\* tables): a row goes when some combination of rows of the extra tables
\* satisfies w; nothing links the extra rows to the row itself.
RECURSIVE DeleteUsing(_, _, _, _)
DeleteUsing(st, rows, table, w) ==
    IF rows = <<>> THEN <<>>
    ELSE LET extra == ExtraFroms(table, w)
             combos == {c \in [extra -> 1..MaxRows] :
                           \A t \in extra : c[t] <= Len(st[t])}
             hit == \E c \in combos :
                       EvalWhere(w, [t \in extra \cup {table} |->
                                        IF t = table THEN Head(rows) ELSE st[t][c[t]]])
         IN (IF hit THEN <<>> ELSE <<Head(rows)>>)
            \o DeleteUsing(st, Tail(rows), table, w)

\* ------------------------------------------------- the terminal operations
\* `if kwargs: return await self.filter(**kwargs).<op>()`: the builder the
\* operation runs on, and the heap after the filter call.
WithKwargs(heap, self, kwargs) ==
    IF kwargs # <<>> THEN filter(heap, self, kwargs) ELSE [heap |-> heap, qs |-> self]

\* QuerySet.get, line 164: the number of rows fetched.
GetLimit == 2

\* QuerySet.get fetching one row only.
GetRows_LimitOne(st, heap, self) ==
    Limit(fetch_all(st, build_select_expression(heap, self)), 1)

\* QuerySet.get, lines 164-165
GetRows(st, heap, self) ==
    Limit(fetch_all(st, build_select_expression(heap, self)), GetLimit)

\* QuerySet.get, lines 164-173, on the builder the keywords gave.
get(st, heap, self) ==
    LET rows == GetRows(st, heap, self) IN
    IF rows = <<>> THEN [outcome |-> "NoMatch", value |-> NoneObj]
    ELSE IF Len(rows) > 1 THEN [outcome |-> "MultipleMatches", value |-> NoneObj]
    ELSE [outcome |-> "instance",
          value |-> from_row(self.model_cls, rows[1], self._select_related)]

\* QuerySet.count: SELECT count(*) over the built expression.
count(st, heap, self) == Len(fetch_all(st, build_select_expression(heap, self)))

\* QuerySet.exists: SELECT EXISTS (the built expression).
exists(st, heap, self) == fetch_all(st, build_select_expression(heap, self)) # <<>>

\* QuerySet.all, lines 153-158
all(st, heap, self) ==
    LET rows == fetch_all(st, build_select_expression(heap, self)) IN
    [k \in 1..Len(rows) |-> from_row(self.model_cls, rows[k], self._select_related)]

\* QuerySet.create, lines 181-183: the pk column is looked up in the dict of
\* table_dict (keyed by str) with the Column object as the key; -1 is the
\* default of the lookup.
CreateData(cls, data) ==
    LET pk_column == Column(cls, Mapping(cls).pk_name) IN
    IF DictGet(data, pk_column, -1) = None THEN DictPop(data, pk_column.name) ELSE data

\* QuerySet.create: [outcome, stmts, rows, value]: the statements issued, the
\* table afterwards and the instance returned.
create(rows, cls, kwargs) ==
    LET m == Model_init(cls, kwargs) IN
    IF ~m.ok
    THEN [outcome |-> "ValidationError", stmts |-> <<>>, rows |-> rows, value |-> NoneObj]
    ELSE LET data == CreateData(cls, table_dict(m.inst))
             stmt == [kind |-> "insert", table |-> TableName[cls], values |-> data]
         IN IF InsertConflicts(rows, cls, data)
            THEN [outcome |-> "StoreError", stmts |-> <<stmt>>, rows |-> rows,
                  value |-> NoneObj]
            ELSE LET result == InsertedRow(rows, cls, data).id IN
                 [outcome |-> "created", stmts |-> <<stmt>>,
                  rows |-> ExecInsert(rows, cls, data),
                  value |-> IF result # None THEN setattr(m.inst, "pk", result) ELSE m.inst]

\* QuerySet.delete_many, lines 215-216: the DELETE takes the WHERE clause of
\* the built SELECT and the model's own table; the joins are not carried over.
DeleteStmt(heap, self) ==
    LET e == build_select_expression(heap, self) IN
    [kind |-> "delete", table |-> e.table, whereclause |-> e.whereclause]

\* ------------------------------------------------------- the initial state
Tables == {TableName[m] : m \in Models}

NoExpr == [table |-> "", tables |-> <<>>, joins |-> <<>>, whereclause |-> WhereClause(<<>>)]

NoRet == [op |-> "none"]

NoInst == [kind |-> "None"]

NoInsertMany == [status |-> "idle"]

Init ==
    /\ lists = <<>>
    /\ builders = <<>>
    /\ expr = NoExpr
    /\ store = [t \in Tables |-> <<>>]
    /\ log = <<>>
    /\ ret = NoRet
    /\ declared = <<>>
    /\ inst = NoInst
    /\ im = NoInsertMany

\* ------------------------------------------------------- building queries
\* The keywords the builders are filtered with, per model class.
Kw(key, value) == [key |-> key, value |-> value]

Keywords ==
    [User    |-> {Kw(<<"name">>, "Tom"), Kw(<<"name", "icontains">>, "tom")},
     Profile |-> {Kw(<<"bio">>, "x")},
     Author  |-> {Kw(<<"name">>, "Tom"), Kw(<<"profile", "bio">>, "x")},
     Book    |-> {Kw(<<"title">>, "A"), Kw(<<"author", "name">>, "Tom"),
                  Kw(<<"author", "profile", "bio", "contains">>, "x")}]

\* **kwargs: up to two keywords with distinct keys, in the order given.
KwargsOf(cls) ==
    {<<>>} \cup {<<k>> : k \in Keywords[cls]}
           \cup {<<p[1], p[2]>> : p \in {q \in Keywords[cls] \X Keywords[cls] :
                                                q[1].key # q[2].key}}

\* The paths select_related is called with, per model class.
RelatedOf ==
    [User    |-> {},
     Profile |-> {},
     Author  |-> {<<<<"profile">>>>},
     Book    |-> {<<<<"author">>>>, <<<<"author", "profile">>>>,
                  <<<<"author", "profile">>, <<"author">>>>}]

\* Model.objects: QuerySet.__get__ builds a fresh QuerySet, whose __init__
\* makes a new empty list for it.
Objects(cls) ==
    /\ Len(builders) < MaxBuilders
    /\ lists' = Append(lists, <<>>)
    /\ builders' = Append(builders, QuerySet(cls, Len(lists) + 1, <<>>))
    /\ UNCHANGED <<expr, store, log, ret, declared, inst, im>>

\* q.filter(**kwargs)
Filter(b, kwargs) ==
    /\ Len(builders) < MaxBuilders
    /\ Len(lists[builders[b].filter_clauses]) + Len(kwargs) <= MaxClauses
    /\ \A i \in 1..Len(kwargs) : KeyOk(builders[b].model_cls, kwargs[i].key)
    /\ LET r == filter(lists, builders[b], kwargs) IN
         /\ lists' = r.heap
         /\ builders' = Append(builders, r.qs)
    /\ UNCHANGED <<expr, store, log, ret, declared, inst, im>>

\* q.select_related(related)
SelectRelated(b, related) ==
    /\ Len(builders) < MaxBuilders
    /\ Len(builders[b]._select_related) + Len(related) <= MaxClauses
    /\ builders' = Append(builders, select_related(builders[b], related))
    /\ UNCHANGED <<lists, expr, store, log, ret, declared, inst, im>>

\* q.build_select_expression(), as every terminal operation calls it.
Build(b) ==
    /\ expr' = build_select_expression(lists, builders[b])
    /\ UNCHANGED <<lists, builders, store, log, ret, declared, inst, im>>

NextQuery ==
    \/ \E cls \in Models : Objects(cls)
    \/ \E b \in 1..Len(builders) : \E kwargs \in KwargsOf(builders[b].model_cls) :
          Filter(b, kwargs)
    \/ \E b \in 1..Len(builders) : \E related \in RelatedOf[builders[b].model_cls] :
          SelectRelated(b, related)
    \/ \E b \in 1..Len(builders) : Build(b)

SpecQuery == Init /\ [][NextQuery]_vars

\* C1: filter never mutates the builder it is called on: across every step,
\* each existing builder keeps its fields and its predicate list keeps its
\* contents.
C1_FilterLeavesSelfUnchanged ==
    [][\A b \in 1..Len(builders) :
          /\ builders'[b] = builders[b]
          /\ lists'[builders[b].filter_clauses] = lists[builders[b].filter_clauses]]_vars

\* C5: the SELECT built for any builder joins each related table exactly once.
C5_EachTableJoinedOnce == NoDuplicates(expr.joins)

\* ------------------------------------------------------ declaring models
\* The fields a class body may declare: the i-th field is named
\* DeclNames[i] and is an Integer (primary key or not) or a String.
DeclNames == <<"id", "name", "code", "extra">>

DeclTypes == {Integer(TRUE), Integer(FALSE), String}

DeclTables == <<"t1", "t2", "t3", "t4">>

DeclFields ==
    UNION {{[i \in 1..n |-> Field(DeclNames[i], ts[i], ts[i].primary_key)] :
              ts \in [1..n -> DeclTypes]} : n \in 1..MaxFields}

\* class X(orm.Model) with a Mapping: MetaModel.__new__ runs; the class exists
\* (and its table is registered) unless __new__ raises.
Declare(fields) ==
    /\ Len(declared) < MaxDeclared
    /\ LET m == MetaModel_new(DeclTables[Len(declared) + 1], fields) IN
         /\ m.ok
         /\ declared' = Append(declared, m)
    /\ UNCHANGED <<lists, builders, expr, store, log, ret, inst, im>>

NextDecl == \E fields \in DeclFields : Declare(fields)

SpecDecl == Init /\ [][NextDecl]_vars

PrimaryKeys(fields) == {i \in 1..Len(fields) : fields[i].type_.primary_key}

\* C3: every declared model (every class whose table was registered) has
\* exactly one field flagged primary-key.
C3_ExactlyOnePrimaryKey ==
    \A d \in 1..Len(declared) : Cardinality(PrimaryKeys(declared[d].fields)) = 1

\* ------------------------------------------------------ materializing rows

\* A row of the joined tables of Book with the given paths joined: the
\* foreign keys point at the joined rows (the join condition).
RowTables(cls, paths) == {TableName[cls]} \cup Range(JoinsOf(cls, paths))

BookRows(paths) ==
    {[t \in RowTables("Book", paths) |->
        CASE t = "books" -> [id |-> b, title |-> ti, author |-> a]
          [] t = "authors" -> [id |-> a, name |-> n, profile |-> p]
          [] t = "profiles" -> [id |-> p, bio |-> "x"]] :
     b \in Ids, ti \in Titles, a \in Ids, n \in Names, p \in Ids}

AuthorRows(paths) ==
    {[t \in RowTables("Author", paths) |->
        CASE t = "authors" -> [id |-> a, name |-> n, profile |-> p]
          [] t = "profiles" -> [id |-> p, bio |-> "x"]] :
     a \in Ids, n \in Names, p \in Ids}

RowsOf(cls, paths) == IF cls = "Book" THEN BookRows(paths) ELSE AuthorRows(paths)

\* cls.from_row(row, select_related=paths), as all() and get() call it.
Materialize(cls, paths, row) ==
    /\ inst' = from_row(cls, row, paths)
    /\ ret' = [op |-> "from_row", cls |-> cls, paths |-> paths, row |-> row]
    /\ UNCHANGED <<lists, builders, expr, store, log, declared, im>>

\* The join-path lists a builder can hold (SpecQuery reaches each of them).
PathLists ==
    [Book   |-> {<<>>, <<<<"author">>>>, <<<<"author", "profile">>>>,
                 <<<<"author">>, <<"author", "profile">>>>,
                 <<<<"author", "profile">>, <<"author">>>>},
     Author |-> {<<>>, <<<<"profile">>>>}]

NextRow ==
    \E cls \in {"Book", "Author"} : \E paths \in PathLists[cls] :
        \E row \in RowsOf(cls, paths) : Materialize(cls, paths, row)

SpecRow == Init /\ [][NextRow]_vars

\* The relations named by the join paths, at every depth.
NamedRelations(paths) ==
    {SubSeq(paths[i], 1, d) : <<i, d>> \in
        {q \in (1..Len(paths)) \X (1..MaxFields) : q[2] <= Len(paths[q[1]])}}

\* The object reached from an instance along a sequence of relation names.
RECURSIVE Follow(_, _)
Follow(obj, parts) ==
    IF parts = <<>> THEN obj
    ELSE IF obj.kind = "Model" /\ Head(parts) \in DOMAIN obj.values
         THEN Follow(obj.values[Head(parts)], Tail(parts))
         ELSE NoneObj

\* An instance of cls holding exactly the row's values of cls's table, its
\* foreign keys replaced by instances of the referenced rows.
Populated(obj, cls, row) ==
    /\ obj.kind = "Model"
    /\ obj.cls = cls
    /\ FullyPopulated(obj)
    /\ \A i \in 1..Len(ModelFields[cls]) :
          LET f == ModelFields[cls][i] IN
          IF f.type_.kind = "ForeignKey"
          THEN obj.values[f.name].kind = "Model"
               /\ pk(obj.values[f.name]) = RowGet(row, Column(cls, f.name))
          ELSE obj.values[f.name] = RowGet(row, Column(cls, f.name))

\* A pk-only instance: the primary key and nothing the row would have filled.
Stub(obj, cls, value) ==
    /\ obj.kind = "Model"
    /\ obj.cls = cls
    /\ pk(obj) = value
    /\ ~FullyPopulated(obj)

ForeignKeys(cls) ==
    {ModelFields[cls][i].name : i \in
        {j \in 1..Len(ModelFields[cls]) : ModelFields[cls][j].type_.kind = "ForeignKey"}}

\* C6: in the instance from_row returns, every relation named by a join path
\* (at every depth) is a fully populated instance built from the row, and
\* every foreign key not named by a join path is a pk-only stub.
C6_NamedRelationsPopulated ==
    ret.op = "from_row" =>
        /\ Populated(inst, ret.cls, ret.row)
        /\ \A np \in NamedRelations(ret.paths) :
              Populated(Follow(inst, np), WalkRelated(ret.cls, np), ret.row)
        /\ \A np \in NamedRelations(ret.paths) \cup {<<>>} :
              \A f \in ForeignKeys(WalkRelated(ret.cls, np)) :
                  (Append(np, f) \notin NamedRelations(ret.paths)) =>
                      Stub(Follow(inst, Append(np, f)),
                           FieldOf(WalkRelated(ret.cls, np), f).type_.to,
                           RowGet(ret.row, Column(WalkRelated(ret.cls, np), f)))

\* ------------------------------------------------- instances and their pk
\* The keyword sets the classes are constructed with: the required field (or
\* not), and the primary key under the name pk, under its native name, under
\* both, or not at all.
PkValues == Ids \cup {None}

CtorData ==
    [User    |-> {[name |-> n] : n \in Names}
                 \cup {[name |-> n, pk |-> v] : n \in Names, v \in PkValues}
                 \cup {[name |-> n, id |-> v] : n \in Names, v \in PkValues}
                 \cup {[name |-> n, pk |-> v, id |-> w] :
                          n \in Names, v \in PkValues, w \in PkValues}
                 \cup {[pk |-> v] : v \in PkValues},
     Author  |-> {[name |-> n] : n \in Names}
                 \cup {[name |-> n, pk |-> v] : n \in Names, v \in PkValues}
                 \cup {[name |-> n, id |-> v] : n \in Names, v \in PkValues},
     Profile |-> {[bio |-> "x"]}
                 \cup {[bio |-> "x", pk |-> v] : v \in PkValues}
                 \cup {[bio |-> "x", id |-> v] : v \in PkValues}]

\* inst = cls(**data); a validation error leaves no instance.
Construct(cls, data) ==
    /\ Model_init(cls, data).ok
    /\ inst' = Model_init(cls, data).inst
    /\ ret' = [op |-> "init", data |-> data]
    /\ UNCHANGED <<lists, builders, expr, store, log, declared, im>>

\* The rejected construction: pydantic raises, nothing is bound.
ConstructFails(cls, data) ==
    /\ ~Model_init(cls, data).ok
    /\ ret' = [op |-> "init_error", data |-> data]
    /\ UNCHANGED <<lists, builders, expr, store, log, declared, inst, im>>

\* inst.pk = value
SetPk(value) ==
    /\ inst.kind = "Model"
    /\ inst' = setattr(inst, "pk", value)
    /\ ret' = [op |-> "setattr", name |-> "pk", value |-> value, before |-> inst]
    /\ UNCHANGED <<lists, builders, expr, store, log, declared, im>>

\* inst.name = value (a field that is not the primary key)
SetName(value) ==
    /\ inst.kind = "Model"
    /\ inst.cls \in {"User", "Author"}
    /\ inst' = setattr(inst, "name", value)
    /\ ret' = [op |-> "setattr", name |-> "name", value |-> value, before |-> inst]
    /\ UNCHANGED <<lists, builders, expr, store, log, declared, im>>

NextModel ==
    \/ \E cls \in DOMAIN CtorData : \E data \in CtorData[cls] : Construct(cls, data)
    \/ \E cls \in DOMAIN CtorData : \E data \in CtorData[cls] : ConstructFails(cls, data)
    \/ \E v \in PkValues : SetPk(v)
    \/ \E n \in Names : SetName(n)

SpecModel == Init /\ [][NextModel]_vars

\* The name of the field the class body flags primary_key.
NativePk(cls) ==
    ModelFields[cls][CHOOSE i \in 1..Len(ModelFields[cls]) :
                        ModelFields[cls][i].type_.primary_key].name

\* C9: pk is an alias of the primary-key field.  An instance constructed with
\* pk=v equals the one constructed with <native name>=v and holds v in the
\* native field; reading pk returns the native field; assigning pk sets the
\* native field to the value and changes no other field.
C9_PkIsAliasOfPrimaryKey ==
    /\ inst.kind = "Model" => pk(inst) = inst.values[NativePk(inst.cls)]
    /\ (ret.op = "init" /\ "pk" \in DOMAIN ret.data) =>
          LET native == Model_init(inst.cls,
                           DictSet(DictPop(ret.data, "pk"), NativePk(inst.cls),
                                   ret.data["pk"])).inst
          IN /\ pk(inst) = ret.data["pk"]
             /\ inst.values[NativePk(inst.cls)] = ret.data["pk"]
             /\ pk(inst) = pk(native)
             /\ inst = native
    /\ (ret.op = "setattr" /\ ret.name = "pk") =>
          /\ inst.values[NativePk(inst.cls)] = ret.value
          /\ pk(inst) = ret.value
          /\ DOMAIN inst.values = DOMAIN ret.before.values
          /\ \A k \in DOMAIN inst.values \ {NativePk(inst.cls)} :
                inst.values[k] = ret.before.values[k]

\* An instance built with pk=v, v not None, answers v to .pk.
C9_Witness ==
    /\ ret.op = "init"
    /\ "pk" \in DOMAIN ret.data
    /\ ret.data["pk"] # None
    /\ inst.kind = "Model"
    /\ pk(inst) = ret.data["pk"]

\* ------------------------------------------------------------ insert_many
\* The rows insert_many is called with: User instances without a primary key.
RowsIn == UNION {[1..n -> {Model_init("User", [name |-> nm]).inst : nm \in Names}] :
                   n \in 0..MaxRowsIn}

\* insert_many, line 204, when the batch is flushed, with `>` for `==`.
ShouldFlush_Late(values, batch_size) == Len(values) > batch_size

\* insert_many, line 204: the batch is flushed when it reaches batch_size.
ShouldFlush(values, batch_size) == Len(values) = batch_size

\* await User.objects.insert_many(rows, batch_size): the call starts with an
\* empty batch (lines 200-201).
InsertManyStart(rows, batch_size) ==
    /\ im.status = "idle"
    /\ im' = [status |-> "running", cls |-> "User", rows |-> rows,
              batch_size |-> batch_size, i |-> 1, values |-> <<>>]
    /\ log' = <<>>
    /\ UNCHANGED <<lists, builders, expr, store, ret, declared, inst>>

\* The statement insert_many hands to execute_many.
InsertManyStmt(cls, values) ==
    [kind |-> "execute_many", table |-> TableName[cls], values |-> values]

\* One turn of the loop (lines 202-206) in which the batch is not flushed.
InsertManyAppend ==
    /\ im.status = "running"
    /\ im.i <= Len(im.rows)
    /\ LET values == Append(im.values, table_dict(im.rows[im.i])) IN
         /\ ~ShouldFlush(values, im.batch_size)
         /\ im' = [im EXCEPT !.i = @ + 1, !.values = values]
    /\ UNCHANGED <<lists, builders, expr, store, log, ret, declared, inst>>

\* One turn of the loop in which the batch is flushed and the executor
\* stores it.
InsertManyFlush ==
    /\ im.status = "running"
    /\ im.i <= Len(im.rows)
    /\ LET values == Append(im.values, table_dict(im.rows[im.i]))
           t == TableName[im.cls]
           r == ExecMany(store[t], im.cls, values, 0)
       IN /\ ShouldFlush(values, im.batch_size)
          /\ r.ok
          /\ log' = Append(log, InsertManyStmt(im.cls, values))
          /\ store' = [store EXCEPT ![t] = r.rows]
          /\ im' = [im EXCEPT !.i = @ + 1, !.values = <<>>]
    /\ UNCHANGED <<lists, builders, expr, ret, declared, inst>>

\* One turn of the loop in which the executor raises on the flushed batch: it
\* has stored the first `done` rows of the batch; the exception leaves
\* insert_many.
InsertManyFlushFails(done) ==
    /\ im.status = "running"
    /\ im.i <= Len(im.rows)
    /\ LET values == Append(im.values, table_dict(im.rows[im.i]))
           t == TableName[im.cls]
           r == ExecMany(store[t], im.cls, SubSeq(values, 1, done), 0)
       IN /\ ShouldFlush(values, im.batch_size)
          /\ done < Len(values)
          /\ log' = Append(log, InsertManyStmt(im.cls, values))
          /\ store' = [store EXCEPT ![t] = r.rows]
          /\ im' = [im EXCEPT !.status = "failed"]
    /\ UNCHANGED <<lists, builders, expr, ret, declared, inst>>

\* After the loop (lines 208-209): the remainder, when there is one, is stored.
InsertManyRemainder ==
    /\ im.status = "running"
    /\ im.i > Len(im.rows)
    /\ Len(im.values) # 0
    /\ LET t == TableName[im.cls]
           r == ExecMany(store[t], im.cls, im.values, 0)
       IN /\ r.ok
          /\ log' = Append(log, InsertManyStmt(im.cls, im.values))
          /\ store' = [store EXCEPT ![t] = r.rows]
          /\ im' = [im EXCEPT !.status = "done", !.values = <<>>]
    /\ UNCHANGED <<lists, builders, expr, ret, declared, inst>>

\* After the loop, the executor raises on the remainder.
InsertManyRemainderFails(done) ==
    /\ im.status = "running"
    /\ im.i > Len(im.rows)
    /\ Len(im.values) # 0
    /\ done < Len(im.values)
    /\ LET t == TableName[im.cls]
           r == ExecMany(store[t], im.cls, SubSeq(im.values, 1, done), 0)
       IN /\ log' = Append(log, InsertManyStmt(im.cls, im.values))
          /\ store' = [store EXCEPT ![t] = r.rows]
          /\ im' = [im EXCEPT !.status = "failed"]
    /\ UNCHANGED <<lists, builders, expr, ret, declared, inst>>

\* After the loop with nothing left: insert_many returns.
InsertManyReturn ==
    /\ im.status = "running"
    /\ im.i > Len(im.rows)
    /\ Len(im.values) = 0
    /\ im' = [im EXCEPT !.status = "done"]
    /\ UNCHANGED <<lists, builders, expr, store, log, ret, declared, inst>>

NextBatch ==
    \/ \E rows \in RowsIn : \E b \in 1..MaxBatch : InsertManyStart(rows, b)
    \/ InsertManyAppend
    \/ InsertManyFlush
    \/ \E done \in 0..MaxBatch : InsertManyFlushFails(done)
    \/ InsertManyRemainder
    \/ \E done \in 0..MaxBatch : InsertManyRemainderFails(done)
    \/ InsertManyReturn

SpecBatch == Init /\ [][NextBatch]_vars

RECURSIVE Flatten(_)
Flatten(batches) ==
    IF batches = <<>> THEN <<>> ELSE Head(batches).values \o Flatten(Tail(batches))

\* C7: a completed insert_many of n rows with batch size b >= 1 has issued
\* ceil(n/b) execute_many calls, each with b rows but the last, which has the
\* remainder; no call is empty; the batches concatenated are the serialized
\* rows in input order.
C7_BatchesPartitionRows ==
    im.status = "done" =>
        LET n == Len(im.rows)
            b == im.batch_size
        IN /\ Len(log) = (n + b - 1) \div b
           /\ \A k \in 1..Len(log) :
                 /\ log[k].kind = "execute_many"
                 /\ Len(log[k].values) >= 1
                 /\ k < Len(log) => Len(log[k].values) = b
                 /\ k = Len(log) => Len(log[k].values) = n - b * (Len(log) - 1)
           /\ Flatten(log) = [j \in 1..n |-> table_dict(im.rows[j])]

\* Five rows in batches of two: three calls, of 2, 2 and 1 rows.
C7_Witness ==
    /\ im.status = "done"
    /\ Len(im.rows) = 5
    /\ im.batch_size = 2
    /\ Len(log) = 3
    /\ Len(log[1].values) = 2
    /\ Len(log[2].values) = 2
    /\ Len(log[3].values) = 1
    /\ Len(store["users"]) = 5

\* ------------------------------------------------ queries against a store
StoreModels == {"Author", "Book"}

StoreKeywords ==
    [Author |-> {Kw(<<"name">>, "Tom"), Kw(<<"name", "iexact">>, "jane")},
     Book   |-> {Kw(<<"title">>, "A"), Kw(<<"author", "name", "icontains">>, "tom")}]

StoreKwargs(cls) ==
    {<<k>> : k \in StoreKeywords[cls]}
    \cup {<<q[1], q[2]>> : q \in {r \in StoreKeywords[cls] \X StoreKeywords[cls] :
                                     r[1].key # r[2].key}}

\* The builders the terminal operations are called on: Model.objects, or one
\* filter or select_related call on it.
FilterCall(kwargs) == [call |-> "filter", kwargs |-> kwargs, related |-> <<>>]

RelatedCall(related) == [call |-> "select_related", kwargs |-> <<>>, related |-> related]

StoreCalls(cls) ==
    {FilterCall(k) : k \in StoreKwargs(cls)}
    \cup (IF cls = "Book" THEN {RelatedCall(<<<<"author">>>>)} ELSE {})

StoreChains(cls) == {<<>>} \cup {<<c>> : c \in StoreCalls(cls)}

Fresh(cls) == [heap |-> <<<<>>>>, qs |-> QuerySet(cls, 1, <<>>)]

RECURSIVE ApplyChain(_, _)
ApplyChain(b, chain) ==
    IF chain = <<>> THEN b
    ELSE ApplyChain(IF Head(chain).call = "filter"
                    THEN filter(b.heap, b.qs, Head(chain).kwargs)
                    ELSE [heap |-> b.heap, qs |-> select_related(b.qs, Head(chain).related)],
                    Tail(chain))

\* cls.objects.<chain>, then the operation's own keywords.
Builder(cls, chain, kwargs) ==
    LET b == ApplyChain(Fresh(cls), chain) IN WithKwargs(b.heap, b.qs, kwargs)

TerminalKwargs(cls) == {<<>>} \cup {<<k>> : k \in StoreKeywords[cls]}

\* What an operation records of the builder it ran on.
Ran(op, b) ==
    [op |-> op, cls |-> b.qs.model_cls, clauses |-> b.heap[b.qs.filter_clauses],
     paths |-> b.qs._select_related]

\* The keyword sets create is called with: complete, with the primary key
\* given, or lacking the required field.
AuthorStub(a) == Model_init("Author", [pk |-> a, __pk_only__ |-> TRUE]).inst

CreateKwargs ==
    [Author |-> {[name |-> n] : n \in Names}
                \cup {[name |-> n, pk |-> v] : n \in Names, v \in Ids}
                \cup {[pk |-> v] : v \in Ids},
     Book   |-> {[title |-> "A", author |-> AuthorStub(a)] : a \in Ids}
                \cup {[title |-> "A"]}]

\* await cls.objects.create(**kwargs); a book is created for an author that
\* is stored.
Create(cls, kwargs) ==
    /\ Len(store[TableName[cls]]) < MaxRows
    /\ NextRowId(store[TableName[cls]]) <= MaxId
    /\ "author" \in DOMAIN kwargs => pk(kwargs["author"]) \in RowIds(store["authors"])
    /\ \E r \in {create(store[TableName[cls]], cls, kwargs)} :
       \E m \in {Model_init(cls, kwargs)} :
          /\ store' = [store EXCEPT ![TableName[cls]] = r.rows]
          /\ log' = r.stmts
          /\ ret' = [op |-> "create", cls |-> cls, outcome |-> r.outcome,
                     value |-> r.value,
                     validated_pk |-> IF m.ok THEN pk(m.inst) ELSE None,
                     before_len |-> Len(store[TableName[cls]])]
    /\ UNCHANGED <<lists, builders, expr, declared, inst, im>>

\* await q.get(**kwargs)
Get(cls, chain, kwargs) ==
    /\ \E b \in {Builder(cls, chain, kwargs)} :
       \E r \in {get(store, b.heap, b.qs)} :
          ret' = Ran("get", b) @@ [outcome |-> r.outcome, value |-> r.value]
    /\ log' = <<>>
    /\ UNCHANGED <<lists, builders, expr, store, declared, inst, im>>

\* await q.count()
Count(cls, chain) ==
    /\ \E b \in {Builder(cls, chain, <<>>)} :
          ret' = Ran("count", b) @@ [value |-> count(store, b.heap, b.qs)]
    /\ log' = <<>>
    /\ UNCHANGED <<lists, builders, expr, store, declared, inst, im>>

\* await q.exists()
Exists(cls, chain) ==
    /\ \E b \in {Builder(cls, chain, <<>>)} :
          ret' = Ran("exists", b) @@ [value |-> exists(store, b.heap, b.qs)]
    /\ log' = <<>>
    /\ UNCHANGED <<lists, builders, expr, store, declared, inst, im>>

\* The primary keys of the rows of the model's table that the builder's
\* SELECT returns.
Selected(st, b) ==
    LET rows == fetch_all(st, build_select_expression(b.heap, b.qs)) IN
    {rows[k][TableName[b.qs.model_cls]].id : k \in 1..Len(rows)}

DeleteRet(b, outcome) ==
    Ran("delete_many", b) @@
    [outcome |-> outcome, before |-> store[TableName[b.qs.model_cls]],
     selected |-> Selected(store, b)]

\* await q.delete_many(**kwargs), the WHERE clause over the model's own table.
DeleteMany(cls, chain, kwargs) ==
    /\ \E b \in {Builder(cls, chain, kwargs)} :
       \E stmt \in {DeleteStmt(b.heap, b.qs)} :
          /\ ExtraFroms(stmt.table, stmt.whereclause) = {}
          /\ store' = [store EXCEPT ![stmt.table] = DeleteWhere(@, stmt.table, stmt.whereclause)]
          /\ log' = <<stmt>>
          /\ ret' = DeleteRet(b, "deleted")
    /\ UNCHANGED <<lists, builders, expr, declared, inst, im>>

\* await q.delete_many(**kwargs), the WHERE clause naming a table that the
\* DELETE does not join, on a backend that renders DELETE ... USING.
DeleteManyUsing(cls, chain, kwargs) ==
    /\ \E b \in {Builder(cls, chain, kwargs)} :
       \E stmt \in {DeleteStmt(b.heap, b.qs)} :
          /\ ExtraFroms(stmt.table, stmt.whereclause) # {}
          /\ store' = [store EXCEPT ![stmt.table] =
                          DeleteUsing(store, @, stmt.table, stmt.whereclause)]
          /\ log' = <<stmt>>
          /\ ret' = DeleteRet(b, "deleted")
    /\ UNCHANGED <<lists, builders, expr, declared, inst, im>>

\* The same call on a backend that rejects the statement (SQLite: no
\* multiple-table criteria within DELETE): the executor raises.
DeleteManyRejected(cls, chain, kwargs) ==
    /\ \E b \in {Builder(cls, chain, kwargs)} :
       \E stmt \in {DeleteStmt(b.heap, b.qs)} :
          /\ ExtraFroms(stmt.table, stmt.whereclause) # {}
          /\ log' = <<stmt>>
          /\ ret' = DeleteRet(b, "StoreError")
    /\ UNCHANGED <<lists, builders, expr, store, declared, inst, im>>

NextStore ==
    \/ \E cls \in StoreModels : \E kwargs \in CreateKwargs[cls] : Create(cls, kwargs)
    \/ \E cls \in StoreModels : \E chain \in StoreChains(cls) :
          \E kwargs \in TerminalKwargs(cls) : Get(cls, chain, kwargs)
    \/ \E cls \in StoreModels : \E chain \in StoreChains(cls) : Count(cls, chain)
    \/ \E cls \in StoreModels : \E chain \in StoreChains(cls) : Exists(cls, chain)
    \/ \E cls \in StoreModels : \E chain \in StoreChains(cls) :
          \E kwargs \in TerminalKwargs(cls) : DeleteMany(cls, chain, kwargs)
    \/ \E cls \in StoreModels : \E chain \in StoreChains(cls) :
          \E kwargs \in TerminalKwargs(cls) : DeleteManyUsing(cls, chain, kwargs)
    \/ \E cls \in StoreModels : \E chain \in StoreChains(cls) :
          \E kwargs \in TerminalKwargs(cls) : DeleteManyRejected(cls, chain, kwargs)

SpecStore == Init /\ [][NextStore]_vars

\* The expression of the builder an operation recorded.
RanExpr(r) ==
    [table |-> TableName[r.cls],
     tables |-> <<TableName[r.cls]>> \o JoinsOf(r.cls, r.paths),
     joins |-> JoinsOf(r.cls, r.paths),
     whereclause |-> WhereClause(r.clauses)]

\* C2: get raises NoMatch when no row matches the accumulated filter, returns
\* the instance of the row when exactly one matches, and raises
\* MultipleMatches when two or more match.
C2_GetByMatchCount ==
    ret.op = "get" =>
        LET rows == fetch_all(store, RanExpr(ret)) IN
        /\ Len(rows) = 0 => ret.outcome = "NoMatch"
        /\ Len(rows) = 1 =>
              /\ ret.outcome = "instance"
              /\ ret.value = from_row(ret.cls, rows[1], ret.paths)
              /\ pk(ret.value) = rows[1][TableName[ret.cls]].id
              /\ FullyPopulated(ret.value)
        /\ Len(rows) >= 2 => ret.outcome = "MultipleMatches"

\* get on a filtered builder with two matching rows stored raised
\* MultipleMatches.
C2_Witness ==
    /\ ret.op = "get"
    /\ ret.clauses # <<>>
    /\ ret.outcome = "MultipleMatches"
    /\ Len(store[TableName[ret.cls]]) = 2

\* C4: the INSERT create issues leaves the primary-key column out exactly when
\* the validated instance's primary key is None, and the returned instance's
\* pk is the identifier the store returned.
C4_CreateOmitsAbsentPk ==
    (ret.op = "create" /\ ret.outcome \in {"created", "StoreError"}) =>
        /\ Len(log) = 1
        /\ log[1].kind = "insert"
        /\ DOMAIN log[1].values =
              IF ret.validated_pk = None
              THEN ColumnNames(ret.cls) \ {Mapping(ret.cls).pk_name}
              ELSE ColumnNames(ret.cls)
        /\ ret.outcome = "created" =>
              pk(ret.value) \in RowIds(store[TableName[ret.cls]])

\* C8: count() on the model's builder is the number of rows created (and not
\* deleted), exists() tells whether there is one, and delete_many deletes
\* exactly the rows its filter selects: all of them without a filter.
C8_CountAndDeleteMany ==
    /\ (ret.op = "count" /\ ret.clauses = <<>> /\ ret.paths = <<>>) =>
          ret.value = Len(store[TableName[ret.cls]])
    /\ (ret.op = "exists" /\ ret.clauses = <<>> /\ ret.paths = <<>>) =>
          ret.value = (Len(store[TableName[ret.cls]]) > 0)
    /\ (ret.op = "create" /\ ret.outcome = "created") =>
          Len(store[TableName[ret.cls]]) = ret.before_len + 1
    /\ ret.op = "delete_many" =>
          /\ RowIds(store[TableName[ret.cls]]) = RowIds(ret.before) \ ret.selected
          /\ \A k \in 1..Len(store[TableName[ret.cls]]) :
                \E j \in 1..Len(ret.before) : ret.before[j] = store[TableName[ret.cls]][k]
          /\ ret.clauses = <<>> => store[TableName[ret.cls]] = <<>>

\* q.filter(a).filter(b) and q.filter(a, b), from heap h.
Chained(h, q, a, b) ==
    LET x == filter(h, q, <<a>>) IN filter(x.heap, x.qs, <<b>>)

Combined(h, q, a, b) == filter(h, q, <<a, b>>)

\* The predicates and the join paths a builder carries, and the rows its
\* compiled SELECT returns from the store.
ClauseSet(h, qs) == Range(h[qs.filter_clauses])

PathSet(qs) == Range(qs._select_related)

SelectRows(st, h, qs) == fetch_all(st, build_select_expression(h, qs))

\* The joined rows of the builder's SELECT before the WHERE clause applies.
JoinedRows(st, qs) ==
    fetch_all(st, [build_select_expression(<<<<>>>>, QuerySet(qs.model_cls, 1, <<>>))
                      EXCEPT !.joins = JoinsOf(qs.model_cls, qs._select_related)])

\* The three builders agree: same predicates, same paths, the predicates
\* under and_ (one predicate unwrapped), the rows those of the join that
\* satisfy every predicate.
Equivalent(st, h, x, y, z) ==
    /\ ClauseSet(h, x) = ClauseSet(h, y) /\ ClauseSet(h, y) = ClauseSet(h, z)
    /\ PathSet(x) = PathSet(y) /\ PathSet(y) = PathSet(z)
    /\ \A w \in {x, y, z} :
          LET e == build_select_expression(h, w)
              n == Len(h[w.filter_clauses]) IN
          /\ e.whereclause.clauses = h[w.filter_clauses]
          /\ e.whereclause.kind = (IF n = 0 THEN "none" ELSE IF n = 1 THEN "clause" ELSE "and_")
          /\ Range(fetch_all(st, e)) =
                {r \in Range(JoinedRows(st, w)) : \A c \in ClauseSet(h, w) : EvalClause(c, r)}
    /\ SelectRows(st, h, x) = SelectRows(st, h, y)
    /\ SelectRows(st, h, y) = SelectRows(st, h, z)

\* The pairs of predicates with different keywords.
KeywordPairs(cls) ==
    {p \in StoreKeywords[cls] \X StoreKeywords[cls] : p[1].key # p[2].key}

\* C10: for every builder q and predicates a, b: q.filter(a).filter(b),
\* q.filter(b).filter(a) and q.filter(a, b) carry the same set of predicates
\* and of join paths, combined with AND (one predicate unwrapped), and select
\* the same rows from the store; both when the three are built on one
\* builder object q and when each is built on cls.objects anew.
C10_ChainedFiltersEquivalent ==
    \A cls \in StoreModels : \A chain \in StoreChains(cls) : \A p \in KeywordPairs(cls) :
        LET q  == ApplyChain(Fresh(cls), chain)
            x  == Chained(q.heap, q.qs, p[1], p[2])
            y  == Chained(x.heap, q.qs, p[2], p[1])
            z  == Combined(y.heap, q.qs, p[1], p[2])
            x1 == Chained(q.heap, q.qs, p[1], p[2])
            y1 == Chained(q.heap, q.qs, p[2], p[1])
            z1 == Combined(q.heap, q.qs, p[1], p[2])
            one == filter(q.heap, q.qs, <<p[1]>>)
        IN /\ Equivalent(store, z.heap, x.qs, y.qs, z.qs)
           /\ ClauseSet(x1.heap, x1.qs) = ClauseSet(y1.heap, y1.qs)
           /\ ClauseSet(y1.heap, y1.qs) = ClauseSet(z1.heap, z1.qs)
           /\ PathSet(x1.qs) = PathSet(y1.qs) /\ PathSet(y1.qs) = PathSet(z1.qs)
           /\ SelectRows(store, x1.heap, x1.qs) = SelectRows(store, y1.heap, y1.qs)
           /\ SelectRows(store, y1.heap, y1.qs) = SelectRows(store, z1.heap, z1.qs)
           /\ SelectRows(store, x1.heap, x1.qs) = SelectRows(store, z.heap, z.qs)
           /\ chain = <<>> =>
                 build_select_expression(one.heap, one.qs).whereclause.kind = "clause"

\* Two books stored, of which Book.objects.filter(title="A",
\* author__name__icontains="tom") selects one and leaves the other out.
C10_Witness ==
    /\ Len(store["books"]) = 2
    /\ \E p \in KeywordPairs("Book") :
          LET z == Combined(Fresh("Book").heap, Fresh("Book").qs, p[1], p[2])
          IN /\ Len(SelectRows(store, z.heap, z.qs)) = 1
             /\ Len(z.heap[z.qs.filter_clauses]) = 2

\* ------------------------------------------- instances against a store
\* UPDATE table SET **data WHERE id = pkval, as the executor runs it.  The
\* statement is rejected when it names a column the table lacks, or gives a
\* row the primary key of another row (or none).
RowHit(rows, pkval) == \E k \in 1..Len(rows) : rows[k].id = pkval

UpdateRejected(rows, cls, data, pkval) ==
    \/ ~(DOMAIN data \subseteq ColumnNames(cls))
    \/ /\ "id" \in DOMAIN data
       /\ RowHit(rows, pkval)
       /\ \/ data["id"] = None
          \/ \E j \in 1..Len(rows) : rows[j].id # pkval /\ rows[j].id = data["id"]

UpdatedRow(row, data) ==
    [c \in DOMAIN row |-> IF c \in DOMAIN data THEN data[c] ELSE row[c]]

\* The table after the UPDATE, in rowid order.
RECURSIVE ExecUpdate(_, _, _)
ExecUpdate(rows, data, pkval) ==
    IF rows = <<>> THEN <<>>
    ELSE InsertSorted(ExecUpdate(Tail(rows), data, pkval),
                      IF Head(rows).id = pkval THEN UpdatedRow(Head(rows), data)
                      ELSE Head(rows))

\* The number of rows the UPDATE changes.
Affected(rows, pkval) == Cardinality({k \in 1..Len(rows) : rows[k].id = pkval})

\* What execute returns for an UPDATE: the affected-row count, or None on a
\* backend that reports none.
Reported(rows, pkval, reports) == IF reports THEN Affected(rows, pkval) ELSE None

\* Model.update keeping the named columns only.
UpdateData_NamedOnly(self, columns, new_values) ==
    LET td == table_dict(self)
        data == [k \in DOMAIN td \cup DOMAIN new_values |->
                    IF k \in DOMAIN new_values THEN new_values[k] ELSE td[k]]
    IN IF columns # <<>>
       THEN [k \in {x \in DOMAIN data : x \in Range(columns)} |-> data[k]]
       ELSE data

\* Model.update, lines 276-282: the values of the UPDATE.
UpdateData(self, columns, new_values) ==
    LET td == table_dict(self)
        data == [k \in DOMAIN td \cup DOMAIN new_values |->
                    IF k \in DOMAIN new_values THEN new_values[k] ELSE td[k]]
    IN IF columns # <<>>
       THEN [k \in {x \in DOMAIN data : x \in Range(columns) \cup DOMAIN new_values} |->
                data[k]]
       ELSE data

\* Model.update, lines 293-294: setattr(self, key, value) for each new value.
RECURSIVE SetAll(_, _, _)
SetAll(self, new_values, keys) ==
    IF keys = {} THEN self
    ELSE LET k == CHOOSE x \in keys : TRUE IN
         SetAll(setattr(self, k, new_values[k]), new_values, keys \ {k})

\* Model.update applying new_values before the UPDATE is awaited.
AfterRaise_Applied(self, new_values) == SetAll(self, new_values, DOMAIN new_values)

\* Model.update, lines 290-294: the instance when execute raises; the loop
\* after the await is not reached.
AfterRaise(self, new_values) == self

\* Model.update: [outcome, stmt, rows, inst, value]: the statement issued, the
\* table and the instance afterwards, the value returned.  When the executor
\* raises, the lines after the await do not run.
update(rows, self, columns, new_values, reports) ==
    LET data == UpdateData(self, columns, new_values)
        stmt == [kind |-> "update", table |-> TableName[self.cls], values |-> data,
                 where_pk |-> pk(self)]
    IN IF UpdateRejected(rows, self.cls, data, pk(self))
       THEN [outcome |-> "StoreError", stmt |-> stmt, rows |-> rows,
             inst |-> AfterRaise(self, new_values), value |-> None]
       ELSE [outcome |-> "updated", stmt |-> stmt,
             rows |-> ExecUpdate(rows, data, pk(self)),
             inst |-> SetAll(self, new_values, DOMAIN new_values),
             value |-> Reported(rows, pk(self), reports)]

\* Model.insert: [outcome, stmt, rows, inst, value]
insert(rows, self) ==
    LET data == table_dict(self)
        stmt == [kind |-> "insert", table |-> TableName[self.cls], values |-> data]
    IN IF InsertConflicts(rows, self.cls, data)
       THEN [outcome |-> "StoreError", stmt |-> stmt, rows |-> rows, inst |-> self,
             value |-> None]
       ELSE LET result == InsertedRow(rows, self.cls, data).id IN
            [outcome |-> "inserted", stmt |-> stmt,
             rows |-> ExecInsert(rows, self.cls, data),
             inst |-> IF result # None THEN setattr(self, "pk", result) ELSE self,
             value |-> result]

\* Model.upsert falling back on a zero count only.
FallsBack_ZeroOnly(rows_updated) == rows_updated = 0

\* Model.upsert, line 336: whether the INSERT follows.
FallsBack(rows_updated) == rows_updated \in {0, None}

\* The class of the instances, the keywords they are constructed with, and
\* the arguments update is called with.
InstModel == "Author"

InstData ==
    {[name |-> n] : n \in Names} \cup {[name |-> n, pk |-> v] : n \in Names, v \in Ids}

NoValues == [k \in {} |-> None]

UpdateColumns == {<<>>, <<"name">>, <<"profile">>, <<"id", "name">>}

UpdateValues ==
    {NoValues} \cup {[name |-> n] : n \in Names} \cup {[id |-> v] : v \in Ids}
               \cup {[name |-> n, id |-> v] : n \in Names, v \in Ids}

\* No upsert is between its call and its return.
InstIdle == ~(ret.op = "upsert" /\ ret.stage \in {"update", "insert"})

\* inst = Author(**data)
Bind(data) == InstIdle /\ Construct(InstModel, data)

\* await Author.objects.create(**kwargs)
CreateCall(kwargs) == InstIdle /\ Create(InstModel, kwargs)

\* Another task deletes a row while this one is suspended or idle.
OtherDelete(id) ==
    /\ RowHit(store[TableName[InstModel]], id)
    /\ store' = [store EXCEPT ![TableName[InstModel]] =
                    SelectSeq(@, LAMBDA r : r.id # id)]
    /\ UNCHANGED <<lists, builders, expr, log, ret, declared, inst, im>>

\* Another task inserts a row while this one is suspended or idle.
OtherInsert(data) ==
    /\ Len(store[TableName[InstModel]]) < MaxRows
    /\ ~InsertConflicts(store[TableName[InstModel]], InstModel, data)
    /\ store' = [store EXCEPT ![TableName[InstModel]] = ExecInsert(@, InstModel, data)]
    /\ UNCHANGED <<lists, builders, expr, log, ret, declared, inst, im>>

\* await inst.update(*columns, **new_values)
Update(columns, new_values, reports) ==
    /\ InstIdle
    /\ inst.kind = "Model"
    /\ \E t \in {TableName[inst.cls]} :
       \E r \in {update(store[t], inst, columns, new_values, reports)} :
          /\ store' = [store EXCEPT ![t] = r.rows]
          /\ inst' = r.inst
          /\ log' = <<r.stmt>>
          /\ ret' = [op |-> "update", outcome |-> r.outcome, value |-> r.value,
                     before |-> inst, columns |-> columns, new_values |-> new_values,
                     reports |-> reports, rows_before |-> store[t],
                     rows_after |-> r.rows]
    /\ UNCHANGED <<lists, builders, expr, declared, im>>

\* await inst.insert()
Insert ==
    /\ InstIdle
    /\ inst.kind = "Model"
    /\ Len(store[TableName[inst.cls]]) < MaxRows
    /\ NextRowId(store[TableName[inst.cls]]) <= MaxId
    /\ \E t \in {TableName[inst.cls]} :
       \E r \in {insert(store[t], inst)} :
          /\ store' = [store EXCEPT ![t] = r.rows]
          /\ inst' = r.inst
          /\ log' = <<r.stmt>>
          /\ ret' = [op |-> "insert", outcome |-> r.outcome, value |-> r.value,
                     before |-> inst, rows_before |-> store[t]]
    /\ UNCHANGED <<lists, builders, expr, declared, im>>

\* await inst.upsert(), lines 332-333: rows_updated = 0, and whether the
\* UPDATE is attempted.
UpsertCall ==
    /\ InstIdle
    /\ inst.kind = "Model"
    /\ log' = <<>>
    /\ ret' = [op |-> "upsert", stage |-> IF pk(inst) # None THEN "update" ELSE "insert",
               pk0 |-> pk(inst), rows_updated |-> 0, hit |-> FALSE, reports |-> TRUE,
               outcome |-> "running", rows_at_insert |-> <<>>, rows_after |-> <<>>]
    /\ UNCHANGED <<lists, builders, expr, store, declared, inst, im>>

\* upsert, line 334: rows_updated = await self.update(); then line 336.
UpsertUpdate(reports) ==
    /\ ret.op = "upsert"
    /\ ret.stage = "update"
    /\ \E t \in {TableName[inst.cls]} :
       \E r \in {update(store[t], inst, <<>>, NoValues, reports)} :
          /\ store' = [store EXCEPT ![t] = r.rows]
          /\ inst' = r.inst
          /\ log' = Append(log, r.stmt)
          /\ ret' = [ret EXCEPT
                        !.rows_updated = r.value,
                        !.hit = RowHit(store[t], pk(inst)),
                        !.reports = reports,
                        !.outcome = IF r.outcome = "StoreError" THEN "StoreError"
                                    ELSE IF FallsBack(r.value) THEN "running"
                                    ELSE "returned",
                        !.stage = IF r.outcome = "StoreError" THEN "error"
                                  ELSE IF FallsBack(r.value) THEN "insert" ELSE "done"]
    /\ UNCHANGED <<lists, builders, expr, declared, im>>

\* upsert, line 337: await self.insert()
UpsertInsert ==
    /\ ret.op = "upsert"
    /\ ret.stage = "insert"
    /\ \E t \in {TableName[inst.cls]} :
       \E r \in {insert(store[t], inst)} :
          /\ r.outcome = "inserted" =>
                /\ Len(store[t]) < MaxRows
                /\ NextRowId(store[t]) <= MaxId
          /\ store' = [store EXCEPT ![t] = r.rows]
          /\ inst' = r.inst
          /\ log' = Append(log, r.stmt)
          /\ ret' = [ret EXCEPT
                        !.rows_at_insert = store[t],
                        !.rows_after = r.rows,
                        !.outcome = IF r.outcome = "StoreError" THEN "StoreError"
                                    ELSE "returned",
                        !.stage = IF r.outcome = "StoreError" THEN "error" ELSE "done"]
    /\ UNCHANGED <<lists, builders, expr, declared, im>>

NextInst ==
    \/ \E data \in InstData : Bind(data)
    \/ \E kwargs \in CreateKwargs[InstModel] : CreateCall(kwargs)
    \/ \E id \in Ids : OtherDelete(id)
    \/ \E n \in Names : \E id \in Ids : OtherInsert([name |-> n, id |-> id])
    \/ \E columns \in UpdateColumns : \E new_values \in UpdateValues :
          \E reports \in BOOLEAN : Update(columns, new_values, reports)
    \/ Insert
    \/ UpsertCall
    \/ \E reports \in BOOLEAN : UpsertUpdate(reports)
    \/ UpsertInsert

SpecInst == Init /\ [][NextInst]_vars

\* The positions of the statements of one kind in the log.
Issued(kind) == {k \in 1..Len(log) : log[k].kind = kind}

\* C11: upsert issues an UPDATE first exactly when the instance's primary key
\* is not None, and an INSERT exactly when no UPDATE was issued or the UPDATE
\* reported zero or None; the INSERT never precedes the UPDATE; an upsert whose
\* UPDATE reported a changed row issues no INSERT, and no INSERT stores a
\* second row under a primary key that the table holds.
C11_UpsertUpdatesThenInserts ==
    (ret.op = "upsert" /\ ret.stage \in {"done", "error"}) =>
        /\ Issued("update") # {} <=> ret.pk0 # None
        /\ Issued("update") \subseteq {1}
        /\ Cardinality(Issued("insert")) <= 1
        /\ Issued("update") \cup Issued("insert") = 1..Len(log)
        /\ Issued("insert") # {} <=>
              (Issued("update") = {} \/ ret.rows_updated \in {0, None})
        /\ \A u \in Issued("update") : \A i \in Issued("insert") : u < i
        /\ \A u \in Issued("update") : log[u].where_pk = ret.pk0
        /\ (ret.hit /\ ret.reports) => (Issued("insert") = {} /\ ret.rows_updated = 1)
        /\ (Issued("insert") # {} /\ ret.pk0 # None /\ RowHit(ret.rows_at_insert, ret.pk0)) =>
              (ret.stage = "error" /\ ret.rows_after = ret.rows_at_insert)
        /\ NoDuplicates([k \in 1..Len(store[TableName[inst.cls]]) |->
                            store[TableName[inst.cls]][k].id])

\* An upsert of an instance whose row is stored has updated it and returned
\* without an INSERT.
C11_Witness ==
    /\ ret.op = "upsert"
    /\ ret.stage = "done"
    /\ ret.hit
    /\ ret.rows_updated = 1
    /\ Len(log) = 1
    /\ log[1].kind = "update"
    /\ RowHit(store[TableName[inst.cls]], ret.pk0)

\* C12: update issues one UPDATE keyed by the primary key the instance had
\* before the call; it writes every field (the serialized state overridden by
\* new_values) when no columns are named, and the named columns together with
\* the keys of new_values otherwise; afterwards the instance holds new_values,
\* its other fields are as before, and the call returned what the store
\* reported for the rows changed.
C12_UpdateWritesAndApplies ==
    ret.op = "update" =>
        LET before == ret.before
            td == table_dict(before)
            nv == ret.new_values
            hits == {k \in 1..Len(ret.rows_before) : ret.rows_before[k].id = pk(before)}
        IN /\ Len(log) = 1
           /\ log[1].kind = "update"
           /\ log[1].table = TableName[before.cls]
           /\ log[1].where_pk = pk(before)
           /\ DOMAIN log[1].values =
                 IF ret.columns = <<>> THEN ColumnNames(before.cls)
                 ELSE Range(ret.columns) \cup DOMAIN nv
           /\ \A k \in DOMAIN log[1].values :
                 log[1].values[k] = IF k \in DOMAIN nv THEN nv[k] ELSE td[k]
           /\ ret.outcome = "updated" =>
                 /\ inst.cls = before.cls
                 /\ DOMAIN inst.values = DOMAIN before.values
                 /\ \A f \in DOMAIN nv : inst.values[f] = nv[f]
                 /\ \A f \in DOMAIN before.values \ DOMAIN nv :
                       inst.values[f] = before.values[f]
                 /\ ret.value = IF ret.reports THEN Cardinality(hits) ELSE None
                 /\ Len(ret.rows_after) = Len(ret.rows_before)
                 /\ \A k \in 1..Len(ret.rows_before) :
                       \E j \in 1..Len(ret.rows_after) :
                          ret.rows_after[j] =
                             IF k \in hits
                             THEN [c \in DOMAIN ret.rows_before[k] |->
                                     IF c \in DOMAIN log[1].values
                                     THEN log[1].values[c] ELSE ret.rows_before[k][c]]
                             ELSE ret.rows_before[k]

\* update("name", id=v) on a stored instance has written the two columns
\* name and id, moved the row to the new key and set the instance's id.
C12_Witness ==
    /\ ret.op = "update"
    /\ ret.outcome = "updated"
    /\ ret.columns = <<"name">>
    /\ DOMAIN ret.new_values = {"id"}
    /\ ret.new_values["id"] # pk(ret.before)
    /\ ret.value = 1
    /\ DOMAIN log[1].values = {"name", "id"}
    /\ pk(inst) = ret.new_values["id"]
    /\ RowHit(ret.rows_after, pk(inst))
    /\ ~RowHit(ret.rows_after, pk(ret.before))

\* C15: when the store rejects the UPDATE of Model.update, the call raises
\* with the statement issued, the instance as it was (none of new_values
\* applied) and the table as it was; a create whose keywords fail validation
\* issues no statement and leaves the store as it was.
C15_FailuresLeaveStateUnchanged ==
    [][/\ (ret'.op = "update" /\ ret'.outcome = "StoreError" /\ ret' # ret) =>
             /\ inst' = inst
             /\ inst' = ret'.before
             /\ store' = store
             /\ Len(log') = 1
             /\ log'[1].kind = "update"
       /\ (ret'.op = "create" /\ ret'.outcome = "ValidationError" /\ ret' # ret) =>
             /\ log' = <<>>
             /\ store' = store
             /\ inst' = inst]_vars

\* update(id=v) towards the key of another stored row was rejected, and the
\* instance still holds its own key.
C15_Witness ==
    /\ ret.op = "update"
    /\ ret.outcome = "StoreError"
    /\ "id" \in DOMAIN ret.new_values
    /\ ret.new_values["id"] # pk(ret.before)
    /\ RowHit(ret.rows_before, ret.new_values["id"])
    /\ pk(inst) = pk(ret.before)

\* ------------------------------------------- tasks deriving builders
\* The tasks that derive builders; one call runs without suspension, so the
\* interleavings are the orders of the calls.
Tasks == {"t1", "t2"}

\* What a builder holds when it is a value of its own: the predicates and the
\* paths of its base as derived, and those its own call added.
Derived(task, base, clauses, paths) ==
    [task |-> task, base |-> base, clauses |-> clauses, paths |-> paths]

RECURSIVE OwnPaths(_, _, _)
OwnPaths(paths, kwargs, i) ==
    IF i > Len(kwargs) THEN paths
    ELSE OwnPaths(AddRelated(paths, kwargs[i]), kwargs, i + 1)

\* Task t evaluates cls.objects.
TaskObjects(t, cls) ==
    /\ Len(builders) < MaxBuilders
    /\ lists' = Append(lists, <<>>)
    /\ builders' = Append(builders, QuerySet(cls, Len(lists) + 1, <<>>))
    /\ log' = Append(log, Derived(t, 0, <<>>, <<>>))
    /\ UNCHANGED <<expr, store, ret, declared, inst, im>>

\* Task t calls builders[b].filter(**kwargs).
TaskFilter(t, b, kwargs) ==
    /\ Len(builders) < MaxBuilders
    /\ Len(lists[builders[b].filter_clauses]) + Len(kwargs) <= MaxClauses
    /\ \A i \in 1..Len(kwargs) : KeyOk(builders[b].model_cls, kwargs[i].key)
    /\ LET r == filter(lists, builders[b], kwargs) IN
         /\ lists' = r.heap
         /\ builders' = Append(builders, r.qs)
    /\ log' = Append(log,
                 Derived(t, b,
                         log[b].clauses \o
                            [i \in 1..Len(kwargs) |->
                                MakeClause(builders[b].model_cls, kwargs[i])],
                         OwnPaths(log[b].paths, kwargs, 1)))
    /\ UNCHANGED <<expr, store, ret, declared, inst, im>>

\* Task t calls builders[b].select_related(related).
TaskSelectRelated(t, b, related) ==
    /\ Len(builders) < MaxBuilders
    /\ Len(builders[b]._select_related) + Len(related) <= MaxClauses
    /\ builders' = Append(builders, select_related(builders[b], related))
    /\ log' = Append(log, Derived(t, b, log[b].clauses, log[b].paths \o related))
    /\ UNCHANGED <<lists, expr, store, ret, declared, inst, im>>

NextTasks ==
    \/ \E t \in Tasks : \E cls \in Models : TaskObjects(t, cls)
    \/ \E t \in Tasks : \E b \in 1..Len(builders) :
          \E kwargs \in KwargsOf(builders[b].model_cls) : TaskFilter(t, b, kwargs)
    \/ \E t \in Tasks : \E b \in 1..Len(builders) :
          \E related \in RelatedOf[builders[b].model_cls] : TaskSelectRelated(t, b, related)

SpecTasks == Init /\ [][NextTasks]_vars

\* C13: under every interleaving of the tasks' calls, each builder's
\* predicate list is its base's predicates as they were derived followed by
\* those of its own call, and its join paths likewise: no call on another
\* builder has changed them.
C13_BuildersShareNoState ==
    \A b \in 1..Len(builders) :
        /\ lists[builders[b].filter_clauses] = log[b].clauses
        /\ builders[b]._select_related = log[b].paths

\* ------------------------------------------- insert_many, a batch failing
\* The state of a failed insert_many: the k-th call is the last of the log.
FailedAtBatch ==
    LET k == Len(log)
        b == im.batch_size
        n == Len(im.rows)
        t == store[TableName[im.cls]]
        last == IF k * b < n THEN k * b ELSE n
    IN /\ k >= 1
       /\ \A j \in 1..k : log[j].kind = "execute_many"
       /\ \A j \in 1..(k - 1) : Len(log[j].values) = b
       /\ Flatten(SubSeq(log, 1, k - 1)) =
             [j \in 1..((k - 1) * b) |-> table_dict(im.rows[j])]
       /\ log[k].values = [j \in 1..(last - (k - 1) * b) |->
                              table_dict(im.rows[(k - 1) * b + j])]
       /\ Len(t) >= (k - 1) * b
       /\ Len(t) < last
       /\ \A j \in 1..((k - 1) * b) : t[j].name = im.rows[j].values["name"]

\* C14: when the k-th batch of insert_many fails, the call ends with the
\* error: batches 1..k-1 are stored as they were sent, nothing but batches
\* has been issued (no delete), and after the failure no statement is issued
\* and the store is not touched.
C14_FailedBatchKeepsEarlier ==
    /\ [](im.status = "failed" => FailedAtBatch)
    /\ [][im.status = "failed" => (log' = log /\ store' = store /\ im' = im)]_vars

\* Five rows in batches of two, the third call failing: four rows stored.
C14_Witness ==
    /\ im.status = "failed"
    /\ Len(im.rows) = 5
    /\ im.batch_size = 2
    /\ Len(log) = 3
    /\ Len(store["users"]) = 4

====
